---- MODULE Spec2Model ----
(***************************************************************************)
(* Model of rclcpp_examples/src/topics/joystick_listener.cpp: main() boots *)
(* the runtime, creates the node "listener", subscribes chatterCallback to  *)
(* topic "joy" and spins; chatterCallback prints one line per axis and one *)
(* line per button of each sensor_msgs::msg::Joy message to std::cout.     *)
(*                                                                         *)
(* Text is modelled as a sequence of one-character strings, standard       *)
(* output as the sequence of lines written so far (each ended by           *)
(* std::endl).  A float32 axis reading is modelled by the decimal          *)
(* [neg, mant, exp] = (-1)^neg * mant * 10^exp closest to it, in canonical *)
(* form (mant has no trailing zero; zero is mant = 0, exp = 0).            *)
(***************************************************************************)
EXTENDS Integers, Sequences, FiniteSets, TLC

VARIABLES
    pc,        \* position of main(): start, inited, noded, subscribed, spin, returned, exited
    rt,        \* TRUE once rclcpp::init has run
    node,      \* name of the node created by main, or NoNode
    sub,       \* set of subscriptions registered on the node
    queue,     \* messages received on the subscription, not yet dispatched
    shutdown,  \* TRUE once an external shutdown (SIGINT) was requested
    cb,        \* position inside chatterCallback: idle, axes, buttons
    i,         \* loop variable of chatterCallback
    msg,       \* argument of the running chatterCallback, or NoMsg
    out,       \* std::cout: the lines written so far
    log,       \* history: the messages dispatched so far, in dispatch order
    marks,     \* history: Len(out) at the moment of each dispatch
    exitCode   \* the set of values main has returned: {} while running

vars == <<pc, rt, node, sub, queue, shutdown, cb, i, msg, out, log, marks, exitCode>>

-----------------------------------------------------------------------------
(* Bounds of the model *)

MaxAxes == 2
MaxButtons == 2
MaxMsgs == 3
MaxQueue == 2

NoNode == "none"
NoMsg == [axes |-> <<>>, buttons |-> <<>>, valid |-> FALSE]

-----------------------------------------------------------------------------
(* Text helpers *)

RECURSIVE Pow10(_)
Pow10(n) == IF n <= 0 THEN 1 ELSE 10 * Pow10(n - 1)

DigitChar == <<"0", "1", "2", "3", "4", "5", "6", "7", "8", "9">>

\* decimal digits of a natural number, most significant first
RECURSIVE Digits(_)
Digits(n) == IF n < 10 THEN <<DigitChar[n + 1]>>
             ELSE Append(Digits(n \div 10), DigitChar[(n % 10) + 1])

RECURSIVE NumDigits(_)
NumDigits(n) == IF n < 10 THEN 1 ELSE 1 + NumDigits(n \div 10)

RECURSIVE Zeros(_)
Zeros(n) == IF n <= 0 THEN <<>> ELSE <<"0">> \o Zeros(n - 1)

RECURSIVE StripZeros(_)
StripZeros(n) == IF n # 0 /\ n % 10 = 0 THEN StripZeros(n \div 10) ELSE n

\* operator<<(int): decimal digits, '-' for negatives, no padding
FormatInt(n) == IF n < 0 THEN <<"-">> \o Digits(-n) ELSE Digits(n)

-----------------------------------------------------------------------------
(* operator<<(float) with the stream's default format: printf("%g") with   *)
(* the default precision of 6 significant digits.                          *)

Precision == 6
MinFixedExp == -4

\* the value rounded to at most p significant digits (ties to even), as
\* [q |-> significand without trailing zeros, x |-> decimal exponent of
\* its first digit]
RoundSig(v, p) ==
    LET nd == NumDigits(v.mant)
        k  == nd - p
        x0 == nd - 1 + v.exp
    IN  IF k <= 0
        THEN [q |-> StripZeros(v.mant), x |-> x0]
        ELSE LET q0 == v.mant \div Pow10(k)
                 r  == v.mant % Pow10(k)
                 up == (2 * r > Pow10(k)) \/ (2 * r = Pow10(k) /\ q0 % 2 = 1)
                 q1 == IF up THEN q0 + 1 ELSE q0
             IN  IF q1 = Pow10(p)
                 THEN [q |-> 1, x |-> x0 + 1]
                 ELSE [q |-> StripZeros(q1), x |-> x0]

\* %e style exponent: sign and at least two digits
FormatExp(x) ==
    LET a == IF x < 0 THEN -x ELSE x
    IN  <<"e", IF x < 0 THEN "-" ELSE "+">> \o
        (IF a < 10 THEN <<"0">> ELSE <<>>) \o Digits(a)

FormatSig(q, x) ==
    LET s == Digits(q)
        L == Len(s)
    IN  IF x >= MinFixedExp /\ x < Precision
        THEN \* %f style, trailing zeros and a bare point removed
             IF x < 0
             THEN <<"0", ".">> \o Zeros(-x - 1) \o s
             ELSE IF L <= x + 1
                  THEN s \o Zeros(x + 1 - L)
                  ELSE SubSeq(s, 1, x + 1) \o <<".">> \o SubSeq(s, x + 2, L)
        ELSE \* %e style
             <<s[1]>> \o (IF L > 1 THEN <<".">> \o SubSeq(s, 2, L) ELSE <<>>)
                     \o FormatExp(x)

FormatFloatTruncating(v) ==
    LET nd == NumDigits(v.mant)
        k  == nd - Precision
        q  == IF k <= 0 THEN v.mant ELSE v.mant \div Pow10(k)
    IN  (IF v.neg THEN <<"-">> ELSE <<>>) \o
        (IF v.mant = 0 THEN <<"0">>
         ELSE FormatSig(StripZeros(q), nd - 1 + v.exp))

FormatFloat(v) ==
    (IF v.neg THEN <<"-">> ELSE <<>>) \o
    (IF v.mant = 0 THEN <<"0">>
     ELSE LET r == RoundSig(v, Precision) IN FormatSig(r.q, r.x))

-----------------------------------------------------------------------------
(* sensor_msgs::msg::Joy: float32[] axes, int32[] buttons *)

Dec(n, m, e) == [neg |-> n, mant |-> m, exp |-> e]

\* axis readings: 0, 0.5, -1, 0.1234567, 0.1234568, 0.00001234
AxisValues ==
    { Dec(FALSE, 0, 0), Dec(FALSE, 5, -1), Dec(TRUE, 1, 0),
      Dec(FALSE, 1234567, -7), Dec(FALSE, 1234568, -7), Dec(FALSE, 1234, -8) }

ButtonValues == {0, 1, -12}

SeqsUpTo(S, n) == UNION { [1..k -> S] : k \in 0..n }

Joy(a, b) == [axes |-> a, buttons |-> b, valid |-> TRUE]

\* every message within the bounds
Messages ==
    { Joy(a, b) : a \in SeqsUpTo(AxisValues, MaxAxes),
                  b \in SeqsUpTo(ButtonValues, MaxButtons) }

\* the messages published on "joy" in the lifecycle specification
JoySamples ==
    { Joy(<<>>, <<>>),
      Joy(<<Dec(FALSE, 5, -1), Dec(TRUE, 1, 0)>>, <<1, 0>>),
      Joy(<<Dec(TRUE, 1, 0), Dec(FALSE, 5, -1)>>, <<0, 1>>),
      Joy(<<Dec(FALSE, 1234567, -7)>>, <<>>),
      Joy(<<>>, <<1>>) }

-----------------------------------------------------------------------------
(* chatterCallback *)

AxisLabel == <<"a", "x", "i", "s", " ">>
ButtonLabel == <<"b", "u", "t", "t", "o", "n", " ">>
Sep == <<":", " ">>

\* "axis " << i << ": " << msg->axes[i]
AxisLine(ix, v) == AxisLabel \o FormatInt(ix) \o Sep \o FormatFloat(v)

ButtonLineClamped(ix, b) ==
    ButtonLabel \o FormatInt(ix) \o Sep \o FormatInt(IF b = 0 THEN 0 ELSE 1)

\* "button " << i << ": " << msg->buttons[i]
ButtonLine(ix, b) == ButtonLabel \o FormatInt(ix) \o Sep \o FormatInt(b)

\* first loop, one iteration: i < msg->axes.size()
AxisStep ==
    /\ cb = "axes"
    /\ i < Len(msg.axes)
    /\ out' = Append(out, AxisLine(i, msg.axes[i + 1]))
    /\ i' = i + 1
    /\ UNCHANGED <<pc, rt, node, sub, queue, shutdown, cb, msg, log, marks, exitCode>>

AxisDoneEarly ==
    /\ cb = "axes"
    /\ ~(i < Len(msg.axes) - 1)
    /\ cb' = "buttons"
    /\ i' = 0
    /\ UNCHANGED <<pc, rt, node, sub, queue, shutdown, msg, out, log, marks, exitCode>>

AxisDoneKeepIndex ==
    /\ cb = "axes"
    /\ ~(i < Len(msg.axes))
    /\ cb' = "buttons"
    /\ i' = i
    /\ UNCHANGED <<pc, rt, node, sub, queue, shutdown, msg, out, log, marks, exitCode>>

\* first loop ends, second loop starts with a fresh int i = 0
AxisDone ==
    /\ cb = "axes"
    /\ ~(i < Len(msg.axes))
    /\ cb' = "buttons"
    /\ i' = 0
    /\ UNCHANGED <<pc, rt, node, sub, queue, shutdown, msg, out, log, marks, exitCode>>

\* second loop, one iteration: i < msg->buttons.size()
ButtonStep ==
    /\ cb = "buttons"
    /\ i < Len(msg.buttons)
    /\ out' = Append(out, ButtonLine(i, msg.buttons[i + 1]))
    /\ i' = i + 1
    /\ UNCHANGED <<pc, rt, node, sub, queue, shutdown, cb, msg, log, marks, exitCode>>

ButtonDoneRetain ==
    /\ cb = "buttons"
    /\ ~(i < Len(msg.buttons))
    /\ cb' = "idle"
    /\ UNCHANGED <<pc, rt, node, sub, queue, shutdown, i, msg, out, log, marks, exitCode>>

\* second loop ends, chatterCallback returns and its argument is destroyed
ButtonDone ==
    /\ cb = "buttons"
    /\ ~(i < Len(msg.buttons))
    /\ cb' = "idle"
    /\ msg' = NoMsg
    /\ UNCHANGED <<pc, rt, node, sub, queue, shutdown, i, out, log, marks, exitCode>>

-----------------------------------------------------------------------------
(* main *)

JoySubscription ==
    [topic |-> "joy", callback |-> "chatterCallback", qos |-> "rmw_qos_profile_default"]

\* rclcpp::init(argc, argv)
RclInit ==
    /\ pc = "start"
    /\ rt' = TRUE
    /\ pc' = "inited"
    /\ UNCHANGED <<node, sub, queue, shutdown, cb, i, msg, out, log, marks, exitCode>>

\* auto node = rclcpp::Node::make_shared("listener")
MakeNode ==
    /\ pc = "inited"
    /\ node' = "listener"
    /\ pc' = "noded"
    /\ UNCHANGED <<rt, sub, queue, shutdown, cb, i, msg, out, log, marks, exitCode>>

\* auto sub = node->create_subscription<Joy>("joy", chatterCallback, rmw_qos_profile_default)
CreateSubscription ==
    /\ pc = "noded"
    /\ sub' = sub \cup {JoySubscription}
    /\ pc' = "subscribed"
    /\ UNCHANGED <<rt, node, queue, shutdown, cb, i, msg, out, log, marks, exitCode>>

\* rclcpp::spin(node) is entered
Spin ==
    /\ pc = "subscribed"
    /\ pc' = "spin"
    /\ UNCHANGED <<rt, node, sub, queue, shutdown, cb, i, msg, out, log, marks, exitCode>>

\* the middleware receives a message for the subscription on "joy"
Arrive ==
    /\ pc \in {"subscribed", "spin"}
    /\ JoySubscription \in sub
    /\ Len(queue) < MaxQueue
    /\ Len(log) + Len(queue) < MaxMsgs
    /\ \E m \in JoySamples : queue' = Append(queue, m)
    /\ UNCHANGED <<pc, rt, node, sub, shutdown, cb, i, msg, out, log, marks, exitCode>>

\* external shutdown request: the handler installed by rclcpp::init makes
\* rclcpp::ok() false
Sigint ==
    /\ rt
    /\ ~shutdown
    /\ pc \in {"inited", "noded", "subscribed", "spin"}
    /\ shutdown' = TRUE
    /\ UNCHANGED <<pc, rt, node, sub, queue, cb, i, msg, out, log, marks, exitCode>>

DispatchBeforeSpin ==
    /\ pc \in {"subscribed", "spin"}
    /\ ~shutdown
    /\ cb = "idle"
    /\ queue # <<>>
    /\ msg' = Head(queue)
    /\ queue' = Tail(queue)
    /\ cb' = "axes"
    /\ i' = 0
    /\ log' = Append(log, Head(queue))
    /\ marks' = Append(marks, Len(out))
    /\ UNCHANGED <<pc, rt, node, sub, shutdown, out, exitCode>>

DispatchReentrant ==
    /\ pc = "spin"
    /\ ~shutdown
    /\ queue # <<>>
    /\ msg' = Head(queue)
    /\ queue' = Tail(queue)
    /\ cb' = "axes"
    /\ i' = 0
    /\ log' = Append(log, Head(queue))
    /\ marks' = Append(marks, Len(out))
    /\ UNCHANGED <<pc, rt, node, sub, shutdown, out, exitCode>>

DispatchKeepIndex ==
    /\ pc = "spin"
    /\ ~shutdown
    /\ cb = "idle"
    /\ queue # <<>>
    /\ msg' = Head(queue)
    /\ queue' = Tail(queue)
    /\ cb' = "axes"
    /\ log' = Append(log, Head(queue))
    /\ marks' = Append(marks, Len(out))
    /\ UNCHANGED <<pc, rt, node, sub, shutdown, i, out, exitCode>>

\* the event loop takes the next message and calls chatterCallback(msg)
Dispatch ==
    /\ pc = "spin"
    /\ ~shutdown
    /\ cb = "idle"
    /\ queue # <<>>
    /\ msg' = Head(queue)
    /\ queue' = Tail(queue)
    /\ cb' = "axes"
    /\ i' = 0
    /\ log' = Append(log, Head(queue))
    /\ marks' = Append(marks, Len(out))
    /\ UNCHANGED <<pc, rt, node, sub, shutdown, out, exitCode>>

SpinReturnWhenIdle ==
    /\ pc = "spin"
    /\ shutdown \/ queue = <<>>
    /\ cb = "idle"
    /\ pc' = "returned"
    /\ UNCHANGED <<rt, node, sub, queue, shutdown, cb, i, msg, out, log, marks, exitCode>>

\* rclcpp::spin returns once shutdown was requested and no callback runs
SpinReturn ==
    /\ pc = "spin"
    /\ shutdown
    /\ cb = "idle"
    /\ pc' = "returned"
    /\ UNCHANGED <<rt, node, sub, queue, shutdown, cb, i, msg, out, log, marks, exitCode>>

ReturnFailure ==
    /\ pc = "returned"
    /\ exitCode' = exitCode \cup {1}
    /\ pc' = "exited"
    /\ UNCHANGED <<rt, node, sub, queue, shutdown, cb, i, msg, out, log, marks>>

\* return 0;
Return ==
    /\ pc = "returned"
    /\ exitCode' = exitCode \cup {0}
    /\ pc' = "exited"
    /\ UNCHANGED <<rt, node, sub, queue, shutdown, cb, i, msg, out, log, marks>>

-----------------------------------------------------------------------------
(* Specifications *)

Init ==
    /\ pc = "start"
    /\ rt = FALSE
    /\ node = NoNode
    /\ sub = {}
    /\ queue = <<>>
    /\ shutdown = FALSE
    /\ cb = "idle"
    /\ i = 0
    /\ msg = NoMsg
    /\ out = <<>>
    /\ log = <<>>
    /\ marks = <<>>
    /\ exitCode = {}

Next ==
    \/ RclInit
    \/ MakeNode
    \/ CreateSubscription
    \/ Spin
    \/ Arrive
    \/ Sigint
    \/ Dispatch
    \/ AxisStep
    \/ AxisDone
    \/ ButtonStep
    \/ ButtonDone
    \/ SpinReturn
    \/ Return

Spec == Init /\ [][Next]_vars

\* the event loop is fair: a ready message is eventually taken and a
\* started callback runs to its end
LiveSpec ==
    /\ Spec
    /\ WF_vars(Dispatch)
    /\ WF_vars(AxisStep \/ AxisDone \/ ButtonStep \/ ButtonDone)

\* one invocation of chatterCallback on an arbitrary message: the node is
\* spinning and exactly one message, any message within the bounds, is queued
CallbackInit ==
    /\ pc = "spin"
    /\ rt = TRUE
    /\ node = "listener"
    /\ sub = {JoySubscription}
    /\ queue \in { <<m>> : m \in Messages }
    /\ shutdown = FALSE
    /\ cb = "idle"
    /\ i = 0
    /\ msg = NoMsg
    /\ out = <<>>
    /\ log = <<>>
    /\ marks = <<>>
    /\ exitCode = {}

CallbackNext ==
    \/ Dispatch
    \/ AxisStep
    \/ AxisDone
    \/ ButtonStep
    \/ ButtonDone

CallbackSpec == CallbackInit /\ [][CallbackNext]_vars

-----------------------------------------------------------------------------
(* Reading the output back: the text of a line is split at its label and   *)
(* its colon, and numbers are parsed from their digits.                    *)

DigitSet == { DigitChar[k] : k \in 1..10 }

DigitVal(c) == CHOOSE d \in 0..9 : DigitChar[d + 1] = c

IsDigits(t) == t # <<>> /\ \A k \in 1..Len(t) : t[k] \in DigitSet

RECURSIVE ParseNat(_)
ParseNat(t) ==
    IF t = <<>> THEN 0
    ELSE 10 * ParseNat(SubSeq(t, 1, Len(t) - 1)) + DigitVal(t[Len(t)])

\* a decimal integer without padding: "0", "17", "-12"
IsIntText(t) ==
    LET d == IF t # <<>> /\ t[1] = "-" THEN Tail(t) ELSE t
    IN  IsDigits(d) /\ (Len(d) > 1 => d[1] # "0")

ParseInt(t) == IF t[1] = "-" THEN 0 - ParseNat(Tail(t)) ELSE ParseNat(t)

Positions(t, c) == { k \in 1..Len(t) : t[k] = c }

HasPrefix(l, p) == Len(l) >= Len(p) /\ SubSeq(l, 1, Len(p)) = p

ColonAt(l) == CHOOSE k \in 1..Len(l) : l[k] = ":"

IndexText(l, label) == SubSeq(l, Len(label) + 1, ColonAt(l) - 1)

ValueText(l) == SubSeq(l, ColonAt(l) + 2, Len(l))

\* l reads "<label><index>: <value>" with a decimal index and a value
\* without blanks
IsLine(l, label) ==
    /\ HasPrefix(l, label)
    /\ Cardinality(Positions(l, ":")) = 1
    /\ ColonAt(l) < Len(l) - 1
    /\ l[ColonAt(l) + 1] = " "
    /\ IsIntText(IndexText(l, label))
    /\ ValueText(l) # <<>>
    /\ Positions(ValueText(l), " ") = {}

RECURSIVE Canon(_, _, _)
Canon(n, m, e) ==
    IF m = 0 THEN Dec(n, 0, 0)
    ELSE IF m % 10 = 0 THEN Canon(n, m \div 10, e + 1)
    ELSE Dec(n, m, e)

\* the decimal a printed floating-point value denotes:
\* [-]digits[.digits][e(+|-)digits]
ParseFloat(t) ==
    LET n     == t[1] = "-"
        body  == IF n THEN Tail(t) ELSE t
        es    == Positions(body, "e")
        ePos  == IF es = {} THEN Len(body) + 1 ELSE CHOOSE k \in es : TRUE
        fixed == SubSeq(body, 1, ePos - 1)
        expo  == IF es = {} THEN 0
                 ELSE IF body[ePos + 1] = "-"
                      THEN 0 - ParseNat(SubSeq(body, ePos + 2, Len(body)))
                      ELSE ParseNat(SubSeq(body, ePos + 2, Len(body)))
        ds    == Positions(fixed, ".")
        dPos  == IF ds = {} THEN Len(fixed) + 1 ELSE CHOOSE k \in ds : TRUE
        int   == SubSeq(fixed, 1, dPos - 1)
        frac  == SubSeq(fixed, dPos + 1, Len(fixed))
    IN  Canon(n, ParseNat(int \o frac), expo - Len(frac))

Abs(x) == IF x < 0 THEN 0 - x ELSE x

Min(a, b) == IF a < b THEN a ELSE b

\* p is v rounded to Precision significant digits: same sign, at most
\* Precision significant digits, and no further from v than half a unit of
\* v's last kept digit
IsRounded(p, v) ==
    LET e0 == Min(p.exp, v.exp)
        P  == p.mant * Pow10(p.exp - e0)
        V  == v.mant * Pow10(v.exp - e0)
        u  == NumDigits(v.mant) + v.exp - Precision - e0
    IN  /\ p.neg = v.neg
        /\ NumDigits(p.mant) <= Precision
        /\ IF u <= 0 THEN P = V ELSE 2 * Abs(P - V) <= Pow10(u)

-----------------------------------------------------------------------------
(* The invocations of chatterCallback recorded in the history *)

Invocations == 1..Len(log)

Completed(k) == k < Len(log) \/ (k = Len(log) /\ cb = "idle")

\* the lines written to std::cout during invocation k
Segment(k) ==
    SubSeq(out, marks[k] + 1, IF k < Len(log) THEN marks[k + 1] ELSE Len(out))

NAxes(k) == Len(log[k].axes)

NButtons(k) == Len(log[k].buttons)

-----------------------------------------------------------------------------
(* Claims about one invocation of chatterCallback *)

\* C1: a completed invocation on a message with N axes and M buttons has
\* written exactly N+M lines: first N lines "axis <index>: <value>", then M
\* lines "button <index>: <value>"; nothing at all when N = M = 0.
C1_LineCount ==
    \A k \in Invocations : Completed(k) =>
        LET seg == Segment(k) IN
        /\ Len(seg) = NAxes(k) + NButtons(k)
        /\ \A j \in 1..Len(seg) :
              IF j <= NAxes(k)
              THEN IsLine(seg[j], AxisLabel) /\ ~HasPrefix(seg[j], ButtonLabel)
              ELSE IsLine(seg[j], ButtonLabel) /\ ~HasPrefix(seg[j], AxisLabel)

C1_Witness ==
    /\ Len(log) = 1 /\ cb = "idle"
    /\ NAxes(1) = 2 /\ NButtons(1) = 2
    /\ Len(out) = 4

\* C2: in a completed invocation the axis lines carry the indices
\* 0, 1, ..., N-1 in that order and the button lines carry 0, 1, ..., M-1 in
\* that order: the button index restarts at 0.
C2_Indices ==
    \A k \in Invocations : Completed(k) =>
        LET seg == Segment(k) IN
        /\ Len(seg) >= NAxes(k) + NButtons(k)
        /\ \A j \in 1..NAxes(k) :
              ParseInt(IndexText(seg[j], AxisLabel)) = j - 1
        /\ \A j \in 1..NButtons(k) :
              ParseInt(IndexText(seg[NAxes(k) + j], ButtonLabel)) = j - 1

C2_Witness ==
    /\ Len(log) = 1 /\ cb = "idle"
    /\ NAxes(1) = 2 /\ NButtons(1) = 2
    /\ ParseInt(IndexText(out[2], AxisLabel)) = 1
    /\ ParseInt(IndexText(out[3], ButtonLabel)) = 0
    /\ ParseInt(IndexText(out[4], ButtonLabel)) = 1

\* C3: in a completed invocation the value printed on line "button j" is the
\* decimal text of msg.buttons[j], for every j in 0..M-1.
C3_ButtonValues ==
    \A k \in Invocations : Completed(k) =>
        LET seg == Segment(k) IN
        /\ Len(seg) >= NAxes(k) + NButtons(k)
        /\ \A j \in 1..NButtons(k) :
              LET t == ValueText(seg[NAxes(k) + j]) IN
              IsIntText(t) /\ ParseInt(t) = log[k].buttons[j]

C3_Witness ==
    /\ Len(log) = 1 /\ cb = "idle"
    /\ log[1].buttons = <<-12, 1>>
    /\ ParseInt(ValueText(out[Len(out) - 1])) = -12
    /\ ParseInt(ValueText(out[Len(out)])) = 1

\* C4 as stated: the value printed on line "axis i" denotes exactly
\* msg.axes[i], so two different axis values never print the same text.
C4_AxisIdentity ==
    \A k \in Invocations : Completed(k) =>
        LET seg == Segment(k) IN
        /\ \A j \in 1..NAxes(k) :
              ParseFloat(ValueText(seg[j])) = log[k].axes[j]
        /\ \A j1, j2 \in 1..NAxes(k) :
              ValueText(seg[j1]) = ValueText(seg[j2])
                  => log[k].axes[j1] = log[k].axes[j2]

\* C4 amended: the value printed on line "axis i" denotes msg.axes[i]
\* rounded to 6 significant decimal digits, and denotes msg.axes[i] exactly
\* when that has at most 6 significant digits.
C4_AxisRounded ==
    \A k \in Invocations : Completed(k) =>
        LET seg == Segment(k) IN
        /\ Len(seg) >= NAxes(k)
        /\ \A j \in 1..NAxes(k) :
              LET p == ParseFloat(ValueText(seg[j]))
                  v == log[k].axes[j]
              IN  /\ IsRounded(p, v)
                  /\ NumDigits(v.mant) <= Precision => p = v

C4_Witness ==
    /\ Len(log) = 1 /\ cb = "idle"
    /\ log[1].axes = <<Dec(FALSE, 1234567, -7), Dec(FALSE, 1234568, -7)>>
    /\ ValueText(out[1]) = ValueText(out[2])
    /\ ParseFloat(ValueText(out[1])) = Dec(FALSE, 123457, -6)

-----------------------------------------------------------------------------
(* Claims about main and the event loop *)

NotYetSpinning == {"start", "inited", "noded", "subscribed"}

AfterSpinning == {"returned", "exited"}

Rank(p) ==
    CASE p = "start" -> 0
      [] p = "inited" -> 1
      [] p = "noded" -> 2
      [] p = "subscribed" -> 3
      [] p = "spin" -> 4
      [] p = "returned" -> 5
      [] p = "exited" -> 6

BootstrapState ==
    /\ pc = "start" => ~rt /\ node = NoNode /\ sub = {}
    /\ pc = "inited" => rt /\ node = NoNode /\ sub = {}
    /\ pc = "noded" => rt /\ node = "listener" /\ sub = {}
    /\ Rank(pc) >= 3 => rt /\ node = "listener" /\ sub = {JoySubscription}
    /\ cb # "idle" => pc = "spin" /\ sub = {JoySubscription}
    /\ log # <<>> => pc \notin NotYetSpinning

\* C5: main initialises the runtime, then creates the node "listener", then
\* registers exactly one subscription of chatterCallback to "joy" with the
\* default QoS, then spins; main's position only moves forward one step at a
\* time, so spinning is entered once and never left for an earlier position;
\* chatterCallback runs only while spinning with the subscription registered.
C5_BootstrapOrder ==
    /\ []BootstrapState
    /\ [][Rank(pc') \in {Rank(pc), Rank(pc) + 1}]_vars
    /\ [][pc \notin NotYetSpinning => pc' \notin NotYetSpinning]_vars

C5_Witness ==
    /\ pc = "spin" /\ cb = "axes" /\ Len(log) = 1 /\ queue # <<>>

Arrived == Len(log) + Len(queue)

\* C6: while spinning, the k-th message that arrived is eventually
\* dispatched unless an external shutdown is requested, and once spin has
\* been entered main is still in it in every state without a shutdown
\* request.
C6_SpinForever ==
    /\ [](pc \notin NotYetSpinning /\ ~shutdown => pc = "spin")
    /\ \A k \in 1..MaxMsgs :
          (pc = "spin" /\ Arrived >= k) ~> (Len(log) >= k \/ shutdown)

C6_Witness ==
    /\ pc = "spin" /\ ~shutdown /\ cb = "idle"
    /\ Len(log) = MaxMsgs /\ queue = <<>>

\* C7: main returns nothing but 0, and only after spin was entered and left
\* on an external shutdown request.
C7_ExitCode ==
    /\ [](exitCode \subseteq {0})
    /\ [](exitCode # {} => pc = "exited" /\ shutdown)
    /\ [][pc' \in AfterSpinning /\ pc \notin AfterSpinning
            => pc = "spin" /\ shutdown]_vars
    /\ [][exitCode' # exitCode => pc = "returned" /\ exitCode' = {0}]_vars

C7_Witness ==
    /\ pc = "exited" /\ exitCode = {0} /\ shutdown

\* the lines chatterCallback writes for message m
Lines(m) ==
    [j \in 1..(Len(m.axes) + Len(m.buttons)) |->
        IF j <= Len(m.axes)
        THEN AxisLine(j - 1, m.axes[j])
        ELSE ButtonLine(j - Len(m.axes) - 1, m.buttons[j - Len(m.axes)])]

\* number of lines the running invocation has written
Progress == IF cb = "axes" THEN i ELSE Len(msg.axes) + i

RECURSIVE Flatten(_)
Flatten(k) ==
    IF k = 0 THEN <<>>
    ELSE Flatten(k - 1) \o
         (IF Completed(k) THEN Lines(log[k])
          ELSE SubSeq(Lines(log[k]), 1, Progress))

\* C8: std::cout holds the lines of the dispatched messages, message after
\* message in dispatch order; only the last dispatched message may be
\* partly written, so no line of one message lies between two lines of
\* another.
C8_Concatenation == out = Flatten(Len(log))

C8_Witness ==
    /\ Len(log) = 2 /\ cb = "buttons" /\ i = 1
    /\ queue # <<>>
    /\ NAxes(1) + NButtons(1) > 0
    /\ log[1] # log[2]

\* C9: two completed invocations on equal messages have written equal
\* lines, whatever was dispatched before each of them, and the lines of an
\* invocation are those its message alone determines.
C9_NoCarriedState ==
    /\ \A j, k \in Invocations :
          Completed(j) /\ Completed(k) /\ log[j] = log[k]
              => Segment(j) = Segment(k)
    /\ \A k \in Invocations : Completed(k) => Segment(k) = Lines(log[k])

C9_Witness ==
    /\ Len(log) = 3 /\ cb = "idle"
    /\ log[1] = log[3] /\ log[2] # log[1]
    /\ NAxes(1) > 0 /\ NButtons(1) > 0 /\ NAxes(2) + NButtons(2) > 0

\* a step of the running chatterCallback
CallbackStep == cb # "idle" /\ (cb' # cb \/ i' # i \/ out' # out)

\* C10: a running chatterCallback holds the message as it was dispatched,
\* holds no message once it has returned, and none of its steps changes
\* main's position, the runtime, the node, the subscription, the queue or
\* the exit code.
C10_Frame ==
    /\ [](cb # "idle" => msg = log[Len(log)])
    /\ [](cb = "idle" => msg = NoMsg)
    /\ [][CallbackStep =>
            UNCHANGED <<pc, rt, node, sub, queue, shutdown, exitCode, log, marks>>]_vars

C10_Witness ==
    /\ pc = "spin" /\ cb = "idle" /\ msg = NoMsg
    /\ Len(log) = 1 /\ Len(out) = 4 /\ queue # <<>>

====
